---- MODULE Spec2Model ----
(***************************************************************************)
(* A model of the LC2K emulator/debugger of src/src/cpu.rs and             *)
(* src/src/main.rs: the instruction decoder (Instruction::new), the CPU    *)
(* (CPU::new, CPU::step, CPU::step_n) and the debugger commands that       *)
(* drive it.                                                               *)
(*                                                                         *)
(* Representation.  TLC's integers are 32-bit signed, so a u32 is kept as  *)
(* the pair <<hi, lo>> of its two 16-bit halves (value = hi * 2^16 + lo);  *)
(* all u32 arithmetic below is exact modulo 2^32.  The memory array of     *)
(* MEMORY_SIZE words is kept as the function from the indices of its       *)
(* non-zero cells to their words: a cell outside the domain holds 0, and   *)
(* a write of 0 removes the index, so two memories are equal as arrays     *)
(* iff they are equal as functions.                                        *)
(***************************************************************************)
EXTENDS Integers, Sequences, FiniteSets, TLC

VARIABLES
    register_file,      \* CPU.register_file : [u32; 8]
    memory,             \* CPU.memory        : Box<[u32; MEMORY_SIZE]>
    pc,                 \* CPU.pc            : u32
    halted,             \* CPU.halted        : bool
    instruction_count,  \* the executed-instruction counter read by `count`
    panicked,           \* the process has panicked (it is gone)
    overflow_checks,    \* build profile: TRUE = debug (u32 `+` panics on
                        \* overflow), FALSE = release (u32 `+` wraps)
    call,               \* the last call made on the CPU
    ret,                \* the boolean the last step / step_n returned
    printed,            \* what the last debugger command printed
    prev,               \* the CPU as it was before the last call
    image               \* the image the CPU was built from

vars == <<register_file, memory, pc, halted, instruction_count, panicked,
          overflow_checks, call, ret, printed, prev, image>>

----------------------------------------------------------------------------
(* u32 arithmetic on <<hi, lo>> pairs *)

H == 2^16

U32(hi, lo) == <<hi, lo>>

Zero == U32(0, 0)

One == U32(0, 1)

U32_MAX == U32(H - 1, H - 1)

\* u32::wrapping_add
wrapping_add(a, b) ==
    LET lo == a[2] + b[2]
    IN  U32((a[1] + b[1] + lo \div H) % H, lo % H)

\* `x + 1` / `x += 1` on a u32: panics on overflow when overflow checks are
\* compiled in, wraps otherwise.
add_one(x, checks) ==
    [value |-> wrapping_add(x, One), panic |-> checks /\ x = U32_MAX]

\* `code >> k` on a u32
Shr(code, k) ==
    IF k >= 16
    THEN U32(0, code[1] \div 2^(k - 16))
    ELSE U32(code[1] \div 2^k, (code[1] % 2^k) * 2^(16 - k) + code[2] \div 2^k)

RECURSIVE BitOr(_, _, _)
\* bitwise or of the low n bits of a and b
BitOr(a, b, n) ==
    IF n = 0 THEN 0
    ELSE (IF a % 2 = 1 \/ b % 2 = 1 THEN 1 ELSE 0)
         + 2 * BitOr(a \div 2, b \div 2, n - 1)

\* `!(a | b)` on u32
Nor(a, b) == U32(H - 1 - BitOr(a[1], b[1], 16), H - 1 - BitOr(a[2], b[2], 16))

\* mutant: the low half taken unsigned, without the `as i16`
AsI16_unsigned(code) == code[2]

\* `(code & 0xFFFF) as i16`
AsI16(code) == IF code[2] >= H \div 2 THEN code[2] - H ELSE code[2]

\* `offset_field as i32`, as the u32 with the same bits
SignExtend(offset_field) ==
    IF offset_field < 0 THEN U32(H - 1, offset_field + H) ELSE U32(0, offset_field)

----------------------------------------------------------------------------
(* Decoder *)

Registers == 0 .. 7

RegisterNew(index) == index[2] % 8

parse_r(code) ==
    [reg_a |-> RegisterNew(Shr(code, 19)),
     reg_b |-> RegisterNew(Shr(code, 16)),
     dst_reg |-> RegisterNew(code)]

parse_i(code) ==
    [reg_a |-> RegisterNew(Shr(code, 19)),
     reg_b |-> RegisterNew(Shr(code, 16)),
     offset_field |-> AsI16(code)]

parse_j(code) ==
    [reg_a |-> RegisterNew(Shr(code, 19)),
     reg_b |-> RegisterNew(Shr(code, 16))]

\* `code >> 22 & 0b111`
Opcode(code) == Shr(code, 22)[2] % 8

\* the variant with the tag op and the operand fields of the record
Variant(op, fields) == [op |-> op] @@ fields

\* Instruction::new
InstructionNew(code) ==
    CASE Opcode(code) = 0 -> Variant("Add", parse_r(code))
      [] Opcode(code) = 1 -> Variant("Nor", parse_r(code))
      [] Opcode(code) = 2 -> Variant("Lw", parse_i(code))
      [] Opcode(code) = 3 -> Variant("Sw", parse_i(code))
      [] Opcode(code) = 4 -> Variant("Beq", parse_i(code))
      [] Opcode(code) = 5 -> Variant("Jalr", parse_j(code))
      [] Opcode(code) = 6 -> [op |-> "Halt"]
      [] Opcode(code) = 7 -> [op |-> "Noop"]

----------------------------------------------------------------------------
(* CPU *)

MEMORY_SIZE == 65536

\* `memory[address as usize]` does not panic
InBounds(address) ==
    \/ address[1] < MEMORY_SIZE \div H
    \/ address[1] = MEMORY_SIZE \div H /\ address[2] < MEMORY_SIZE % H

AsUsize(address) == address[1] * H + address[2]

\* `memory[index]` for an index in bounds
MemRead(mem, index) == IF index \in DOMAIN mem THEN mem[index] ELSE Zero

\* `memory[index] = value` for an index in bounds
MemWrite(mem, index, value) ==
    [a \in (IF value = Zero THEN DOMAIN mem \ {index} ELSE DOMAIN mem \cup {index})
        |-> IF a = index THEN value ELSE mem[a]]

\* mutant: the image is copied from its second word on
New_skips_first_word(starting_memory) ==
    [register_file |-> [r \in Registers |-> Zero],
     memory |-> [a \in {i \in 1 .. Len(starting_memory) - 1 :
                          i < MEMORY_SIZE /\ starting_memory[i + 1] # Zero}
                   |-> starting_memory[a + 1]],
     pc |-> Zero,
     halted |-> FALSE,
     instruction_count |-> 0,
     panicked |-> Len(starting_memory) > MEMORY_SIZE]

\* CPU::new.  The image is written cell by cell; an image longer than the
\* array panics on the first index past it.
New(starting_memory) ==
    [register_file |-> [r \in Registers |-> Zero],
     memory |-> [a \in {i \in 0 .. Len(starting_memory) - 1 :
                          i < MEMORY_SIZE /\ starting_memory[i + 1] # Zero}
                   |-> starting_memory[a + 1]],
     pc |-> Zero,
     halted |-> FALSE,
     instruction_count |-> 0,
     panicked |-> Len(starting_memory) > MEMORY_SIZE]

get_register(c, register) == c.register_file[register]

set_register(c, register, value) ==
    [c EXCEPT !.register_file[register] = value]

offset_memory(address, offset_field) ==
    wrapping_add(address, SignExtend(offset_field))

Panic(c) == [c EXCEPT !.panicked = TRUE]

\* The executed-instruction counter (the field behind get_instruction_count):
\* one more for the instruction just executed.
CountExecuted(c) == [c EXCEPT !.instruction_count = @ + 1]

\* mutant: the instruction decoded once, from the image, and kept
Fetch_from_image(c) ==
    InstructionNew(IF AsUsize(c.pc) < Len(image) THEN image[AsUsize(c.pc) + 1] ELSE Zero)

\* `self.memory[self.pc as usize]` then Instruction::new
Fetch(c) == InstructionNew(MemRead(c.memory, AsUsize(c.pc)))

\* mutant: the sum taken with a checked add, which panics when it
\* overflows
ExecAdd_checked(c, ins) ==
    IF get_register(c, ins.reg_a)[1] + get_register(c, ins.reg_b)[1]
         + (get_register(c, ins.reg_a)[2] + get_register(c, ins.reg_b)[2]) \div H >= H
    THEN Panic(c)
    ELSE set_register(c, ins.dst_reg,
                      wrapping_add(get_register(c, ins.reg_a), get_register(c, ins.reg_b)))

ExecAdd(c, ins) ==
    set_register(c, ins.dst_reg,
                 wrapping_add(get_register(c, ins.reg_a), get_register(c, ins.reg_b)))

ExecNor(c, ins) ==
    set_register(c, ins.dst_reg,
                 Nor(get_register(c, ins.reg_a), get_register(c, ins.reg_b)))

\* `self.memory[address as usize]` into reg_b; the index panics out of bounds
LoadFrom(c, reg_b, address) ==
    IF InBounds(address)
    THEN set_register(c, reg_b, MemRead(c.memory, AsUsize(address)))
    ELSE Panic(c)

ExecLw(c, ins) ==
    LoadFrom(c, ins.reg_b, offset_memory(get_register(c, ins.reg_a), ins.offset_field))

\* `self.memory[address as usize] = value`; the index panics out of bounds
StoreTo(c, address, value) ==
    IF InBounds(address)
    THEN [c EXCEPT !.memory = MemWrite(@, AsUsize(address), value)]
    ELSE Panic(c)

\* mutant: the store ignores the offset field
ExecSw_ignores_offset(c, ins) ==
    StoreTo(c, get_register(c, ins.reg_a), get_register(c, ins.reg_b))

\* mutant: the store writes reg_a, the address register
ExecSw_stores_reg_a(c, ins) ==
    StoreTo(c, offset_memory(get_register(c, ins.reg_a), ins.offset_field),
            get_register(c, ins.reg_a))

ExecSw(c, ins) ==
    StoreTo(c, offset_memory(get_register(c, ins.reg_a), ins.offset_field),
            get_register(c, ins.reg_b))

\* mutant: the branch is taken whatever the registers hold
ExecBeq_unconditional(c, ins) ==
    [c EXCEPT !.pc = offset_memory(c.pc, ins.offset_field)]

ExecBeq(c, ins) ==
    IF get_register(c, ins.reg_a) = get_register(c, ins.reg_b)
    THEN [c EXCEPT !.pc = offset_memory(c.pc, ins.offset_field)]
    ELSE c

\* mutant: the jump skips the instruction at the target
JumpTo_plus_one(c, reg_a) == [c EXCEPT !.pc = wrapping_add(get_register(c, reg_a), One)]

\* `self.pc = self.get_register(reg_a)`
JumpTo(c, reg_a) == [c EXCEPT !.pc = get_register(c, reg_a)]

\* mutant: the jump target is read before the link is written
ExecJalr_target_first(c, ins, checks) ==
    IF add_one(c.pc, checks).panic
    THEN Panic(c)
    ELSE [set_register(c, ins.reg_b, add_one(c.pc, checks).value)
            EXCEPT !.pc = get_register(c, ins.reg_a)]

\* the Jalr arm: `self.set_register(reg_b, self.pc + 1)`, then the jump, then
\* `return false`
ExecJalr(c, ins, checks) ==
    IF add_one(c.pc, checks).panic
    THEN Panic(c)
    ELSE JumpTo(set_register(c, ins.reg_b, add_one(c.pc, checks).value), ins.reg_a)

\* mutant: the Halt arm without its `self.pc += 1`
ExecHalt_no_advance(c, checks) == [c EXCEPT !.halted = TRUE]

\* mutant: the Halt arm without its `self.halted = true`
ExecHalt_flag_not_set(c, checks) ==
    IF add_one(c.pc, checks).panic
    THEN Panic(c)
    ELSE [c EXCEPT !.pc = add_one(c.pc, checks).value]

\* the Halt arm: `self.pc += 1; self.halted = true; return true`
ExecHalt(c, checks) ==
    IF add_one(c.pc, checks).panic
    THEN Panic(c)
    ELSE [c EXCEPT !.pc = add_one(c.pc, checks).value, !.halted = TRUE]

\* mutant: the pc advanced by 2 after the match
AdvancePc_by_two(c, checks) ==
    IF c.panicked THEN c
    ELSE [c EXCEPT !.pc = wrapping_add(add_one(c.pc, checks).value, One)]

\* the `self.pc += 1` after the match (not reached when the arm panicked)
AdvancePc(c, checks) ==
    IF c.panicked THEN c
    ELSE IF add_one(c.pc, checks).panic THEN Panic(c)
    ELSE [c EXCEPT !.pc = add_one(c.pc, checks).value]

\* the arms of the match that fall through to `self.pc += 1`
ExecArm(c, ins) ==
    CASE ins.op = "Add" -> ExecAdd(c, ins)
      [] ins.op = "Nor" -> ExecNor(c, ins)
      [] ins.op = "Lw" -> ExecLw(c, ins)
      [] ins.op = "Sw" -> ExecSw(c, ins)
      [] ins.op = "Beq" -> ExecBeq(c, ins)
      [] ins.op = "Noop" -> c

\* the match on the decoded instruction, up to the return
Dispatch(c, ins, checks) ==
    CASE ins.op = "Jalr" -> ExecJalr(c, ins, checks)
      [] ins.op = "Halt" -> ExecHalt(c, checks)
      [] OTHER -> AdvancePc(ExecArm(c, ins), checks)

\* the step's result: the CPU after the instruction, counted as executed,
\* and the value returned (true from the Halt arm only)
Retire(after, ins) ==
    [cpu |-> IF after.panicked THEN after ELSE CountExecuted(after),
     ret |-> ins.op = "Halt" /\ ~after.panicked]

ExecuteInstruction(c, ins, checks) == Retire(Dispatch(c, ins, checks), ins)

\* what step does on a CPU that is not halted: fetch (the index panics out
\* of bounds), decode, execute
Execute(c, checks) ==
    IF ~InBounds(c.pc)
    THEN [cpu |-> Panic(c), ret |-> FALSE]
    ELSE ExecuteInstruction(c, Fetch(c), checks)

\* mutant: step without the `if self.halted { return true }`
step_no_halted_check(c, checks) == Execute(c, checks)

\* CPU::step
step(c, checks) ==
    IF c.halted
    THEN [cpu |-> c, ret |-> TRUE]
    ELSE Execute(c, checks)

RECURSIVE step_loop(_, _, _)
RECURSIVE loop_body(_, _, _)

\* mutant: the loop body without the `if self.step()` test
loop_body_always_halts(s, count, checks) ==
    IF s.cpu.panicked THEN s
    ELSE [cpu |-> [s.cpu EXCEPT !.halted = TRUE], ret |-> TRUE]

\* one iteration of the loop of step_n, s being what `self.step()` gave
loop_body(s, count, checks) ==
    IF s.cpu.panicked THEN s
    ELSE IF s.ret
    THEN [cpu |-> [s.cpu EXCEPT !.halted = TRUE], ret |-> TRUE]
    ELSE step_loop(s.cpu, count - 1, checks)

\* mutant: `0..=count`, one iteration too many
step_loop_inclusive(c, count, checks) ==
    IF count = -1
    THEN [cpu |-> c, ret |-> FALSE]
    ELSE loop_body(step(c, checks), count, checks)

\* the `for _ in 0..count` loop of step_n with count iterations left, and
\* the `false` after it
step_loop(c, count, checks) ==
    IF count = 0
    THEN [cpu |-> c, ret |-> FALSE]
    ELSE loop_body(step(c, checks), count, checks)

\* CPU::step_n
step_n(c, count, checks) ==
    IF c.halted
    THEN [cpu |-> c, ret |-> TRUE]
    ELSE step_loop(c, count, checks)

\* CPU::get_instruction_count, as main.rs calls it
get_instruction_count(c) == c.instruction_count

\* CPU::print_memory: the slice `memory[start..start + count]` panics
\* before anything is printed when it ends past the array; otherwise the
\* words of the window are printed
print_memory(c, start_addr, count) ==
    IF start_addr + count > MEMORY_SIZE
    THEN [cpu |-> Panic(c), out |-> <<>>]
    ELSE [cpu |-> c,
          out |-> [i \in 1 .. count |-> MemRead(c.memory, start_addr + i - 1)]]

\* the number of iterations of the loop of print_instruction that index
\* memory in bounds
LinesPrinted(c, amount) ==
    IF ~InBounds(c.pc) THEN 0
    ELSE IF AsUsize(c.pc) + amount > MEMORY_SIZE THEN MEMORY_SIZE - AsUsize(c.pc)
    ELSE amount

\* CPU::print_instruction: one line per address from pc on, address and
\* decoded instruction; `self.memory[addr]` panics at the first address out
\* of bounds, after the lines before it were printed
print_instruction(c, amount) ==
    [cpu |-> IF LinesPrinted(c, amount) < amount THEN Panic(c) ELSE c,
     out |-> [i \in 1 .. LinesPrinted(c, amount) |->
                [addr |-> AsUsize(c.pc) + i - 1,
                 ins |-> InstructionNew(MemRead(c.memory, AsUsize(c.pc) + i - 1))]]]

----------------------------------------------------------------------------
(* Program images *)

MaxImageLen == 2

MaxExecuted == 6

MaxCount == 3

\* the word with opcode in bits 24-22, reg_a in 21-19, reg_b in 18-16 and
\* low in bits 15-0
Enc(opcode, a, b, low) == U32(opcode * 64 + a * 8 + b, low)

Off(offset) == IF offset < 0 THEN offset + H ELSE offset

ADD(a, b, d) == Enc(0, a, b, d)
NOR(a, b, d) == Enc(1, a, b, d)
LW(a, b, offset) == Enc(2, a, b, Off(offset))
SW(a, b, offset) == Enc(3, a, b, Off(offset))
BEQ(a, b, offset) == Enc(4, a, b, Off(offset))
JALR(a, b) == Enc(5, a, b, 0)
HALT == Enc(6, 0, 0, 0)
NOOP == Enc(7, 0, 0, 0)

\* words the short images are built from: every opcode, set bits above
\* bit 24 and in the unused fields, offsets of both signs
ImageWords ==
    { HALT,
      U32_MAX,                      \* noop, every bit set
      U32(2 * 512 + 6 * 64, 9),     \* halt, bits 25.. and 15..0 set
      LW(0, 1, 1),
      LW(1, 2, -1),
      SW(0, 1, 2),
      SW(1, 1, 1),
      BEQ(0, 0, -1),
      BEQ(0, 1, -2),
      JALR(1, 1),
      JALR(1, 2),
      U32(512 + 1 * 8 + 1, 8 + 2),  \* add r1 r1 r2, bits 25 and 3 set
      NOR(0, 0, 1),
      U32(0, 3) }

RECURSIVE SeqsOfLen(_, _)
SeqsOfLen(S, n) ==
    IF n = 0 THEN {<<>>}
    ELSE {Append(q, w) : q \in SeqsOfLen(S, n - 1), w \in S}

ShortImages == UNION {SeqsOfLen(ImageWords, n) : n \in 0 .. MaxImageLen}

\* load two registers from data cells, then branch on them
BranchImages ==
    { << LW(0, ra, 4), LW(0, rb, 5), BEQ(ra, rb, off), HALT, U32(0, va), U32(0, vb) >> :
        ra \in {1, 2}, rb \in {1, 2}, va \in {5, 6}, vb \in {5},
        off \in {3, 0, -1, -3, 32767, -32768} }

\* load a jump target, branch to address 10 and jump-and-link from there
JumpImages ==
    { << LW(0, ra, 2), BEQ(0, 0, 8), target, Zero, Zero, Zero, Zero, Zero, Zero, Zero,
         JALR(ra, rb) >> :
        ra \in {1, 2, 7}, rb \in {1, 2, 7},
        target \in {U32(0, 100), Zero, U32(0, H - 1), U32(1, 0), U32_MAX} }

\* load an address and a value, store the value there and load it back
StoreLoadImages ==
    { << LW(0, ra, 5), LW(0, rb, 6), SW(ra, rb, 0), LW(ra, rc, 0), HALT, addr, val >> :
        ra \in {1, 2}, rb \in {1, 2, 3}, rc \in {1, 3},
        addr \in {Zero, U32(0, 3), U32(0, 4), U32(0, 7), U32(0, 100), U32(0, H - 1),
                  U32(1, 0)},
        val \in {U32(0, 5), U32_MAX, HALT} }

\* load two registers from data cells and add them
AddImages ==
    { << LW(0, ra, 4), LW(0, rb, 5), ADD(ra, rb, rd), HALT, va, vb >> :
        ra \in {1, 2}, rb \in {1, 2}, rd \in {1, 3},
        va \in {U32_MAX, U32(0, 1), U32(H \div 2, H - 1), U32(1, 0)},
        vb \in {U32_MAX, U32(0, 1), U32(H \div 2, H - 1), U32(1, 0)} }

Images ==
    ShortImages \cup BranchImages \cup JumpImages \cup StoreLoadImages \cup AddImages

----------------------------------------------------------------------------
(* The state machine *)

\* the CPU value held in the variables
CPU ==
    [register_file |-> register_file, memory |-> memory, pc |-> pc,
     halted |-> halted, instruction_count |-> instruction_count,
     panicked |-> panicked]

\* the variables take the value c
Becomes(c) ==
    /\ register_file' = c.register_file
    /\ memory' = c.memory
    /\ pc' = c.pc
    /\ halted' = c.halted
    /\ instruction_count' = c.instruction_count
    /\ panicked' = c.panicked

\* the variables start as c
Starts(c) ==
    /\ register_file = c.register_file
    /\ memory = c.memory
    /\ pc = c.pc
    /\ halted = c.halted
    /\ instruction_count = c.instruction_count
    /\ panicked = c.panicked
    /\ prev = c

\* the call leaves the CPU as s.cpu and returns s.ret
Returns(s) == Becomes(s.cpu) /\ ret' = s.ret

\* main: the CPU is built from the image file; the build fixes whether
\* arithmetic overflow panics
Init ==
    \E words \in Images, checks \in BOOLEAN :
        /\ image = words
        /\ Starts(New(words))
        /\ overflow_checks = checks
        /\ call = [op |-> "new", count |-> 0]
        /\ ret = FALSE
        /\ printed = <<>>

\* a call of cpu.step()
StepCall ==
    /\ ~panicked
    /\ Returns(step(CPU, overflow_checks))
    /\ call' = [op |-> "step", count |-> 1]
    /\ printed' = <<>>
    /\ prev' = CPU
    /\ UNCHANGED <<overflow_checks, image>>

\* a call of cpu.step() while the run is within MaxExecuted instructions
Step ==
    /\ halted \/ instruction_count < MaxExecuted
    /\ StepCall

\* the debugger's `step n`: cpu.step_n(count), and a message when it
\* returns true
StepN(count) ==
    /\ ~panicked
    /\ halted \/ instruction_count + count <= MaxExecuted
    /\ Returns(step_n(CPU, count, overflow_checks))
    /\ printed' = IF ret' /\ ~panicked' THEN <<"Program has halted">> ELSE <<>>
    /\ call' = [op |-> "step_n", count |-> count]
    /\ prev' = CPU
    /\ UNCHANGED <<overflow_checks, image>>

\* the debugger's `count`
Count ==
    /\ ~panicked
    /\ call' = [op |-> "count", count |-> 0]
    /\ printed' = <<get_instruction_count(CPU)>>
    /\ prev' = CPU
    /\ UNCHANGED <<register_file, memory, pc, halted, instruction_count, panicked,
                   overflow_checks, ret, image>>

Next ==
    \/ Step
    \/ \E count \in 0 .. MaxCount : StepN(count)
    \/ Count

Spec == Init /\ [][Next]_vars

\* the longest window the debugger's `mem` and `ins` are asked for
MaxWindow == 2

\* the start addresses `mem` is asked for
MemStarts == {0, 3, MEMORY_SIZE - 1}

\* the debugger's `mem start count`
PrintMemory(start_addr, count) ==
    /\ ~panicked
    /\ Becomes(print_memory(CPU, start_addr, count).cpu)
    /\ printed' = print_memory(CPU, start_addr, count).out
    /\ call' = [op |-> "mem", count |-> count, start |-> start_addr]
    /\ prev' = CPU
    /\ UNCHANGED <<overflow_checks, ret, image>>

\* the debugger's `ins amount`
PrintInstruction(amount) ==
    /\ ~panicked
    /\ Becomes(print_instruction(CPU, amount).cpu)
    /\ printed' = print_instruction(CPU, amount).out
    /\ call' = [op |-> "ins", count |-> amount]
    /\ prev' = CPU
    /\ UNCHANGED <<overflow_checks, ret, image>>

\* a debugger session of single steps and inspections of memory
NextShell ==
    \/ Step
    \/ \E start_addr \in MemStarts, count \in 1 .. MaxWindow :
          PrintMemory(start_addr, count)
    \/ \E amount \in 1 .. MaxWindow : PrintInstruction(amount)

SpecShell == Init /\ [][NextShell]_vars

\* the count of the debugger's `step n` in a long run
RunLength == 32

\* main with an image file that holds no word
InitEmpty ==
    \E checks \in BOOLEAN :
        /\ image = <<>>
        /\ Starts(New(<<>>))
        /\ overflow_checks = checks
        /\ call = [op |-> "new", count |-> 0]
        /\ ret = FALSE
        /\ printed = <<>>

\* the debugger's `step n` with n = RunLength
Run ==
    /\ ~panicked
    /\ Returns(step_n(CPU, RunLength, overflow_checks))
    /\ printed' = IF ret' /\ ~panicked' THEN <<"Program has halted">> ELSE <<>>
    /\ call' = [op |-> "step_n", count |-> RunLength]
    /\ prev' = CPU
    /\ UNCHANGED <<overflow_checks, image>>

\* a session on the empty image: single steps at first, then long runs to
\* the end of the address space
NextEmpty ==
    \/ Step
    \/ Run

SpecEmpty == InitEmpty /\ [][NextEmpty]_vars

----------------------------------------------------------------------------
(* Vocabulary of the properties *)

\* the last call was cpu.step() / cpu.step_n(count)
IsStep == call.op = "step"
IsStepN == call.op = "step_n"

\* the last call was a step() on a running CPU whose fetch was in bounds:
\* it executed the instruction Fetch(prev)
Executed(form) ==
    /\ IsStep
    /\ ~prev.halted
    /\ InBounds(prev.pc)
    /\ Fetch(prev).op = form

\* the u32 with the value n modulo 2^32, for -2^16 <= n < 2^31
U32OfInt(n) == IF n < 0 THEN U32(H - 1, n + H) ELSE U32(n \div H, n % H)

\* the address of the instruction the last step executed, as an integer
Address == prev.pc[2]

----------------------------------------------------------------------------
(* C1: once the machine has halted, every call of step() and of
   step_n(count), for every count, leaves the 8 registers, every memory cell
   and pc as they were and returns true. *)
C1_HaltTerminal ==
    (prev.halted /\ (IsStep \/ IsStepN)) =>
        /\ register_file = prev.register_file
        /\ memory = prev.memory
        /\ pc = prev.pc
        /\ halted
        /\ ~panicked
        /\ ret = TRUE

\* step_n(MaxCount) and step() were called on a machine a HALT had halted
C1_Witness_StepN ==
    /\ prev.halted
    /\ IsStepN
    /\ call.count = MaxCount
    /\ Fetch([prev EXCEPT !.pc = U32OfInt(prev.pc[2] - 1)]).op = "Halt"
    /\ prev.instruction_count > 1
    /\ ret

(* C2: halted is false at construction, turns true only in a call whose
   last executed instruction was fetched from a word that decodes to HALT
   (the word just below the pc the call leaves), and is never false again
   once true. *)
C2_HaltedOneWay ==
    /\ call.op = "new" => ~halted
    /\ prev.halted => halted
    /\ (~prev.halted /\ halted) =>
          /\ IsStep \/ IsStepN
          /\ InBounds(U32OfInt(AsUsize(pc) - 1))
          /\ Opcode(MemRead(memory, AsUsize(pc) - 1)) = 6
          /\ IsStep => Executed("Halt")

\* a step() that executed HALT turned the flag on
C2_Witness_Halting == ~prev.halted /\ halted /\ Executed("Halt") /\ Address > 0

\* the operand fields of the instruction the last step executed
Ins == Fetch(prev)

\* the registers the instruction names held equal values before the step
OperandsEqual == prev.register_file[Ins.reg_a] = prev.register_file[Ins.reg_b]

(* C3 as stated: a step that executes BEQ sets pc to (address + offset)
   when the two registers are equal, with no further advance by 1, and to
   (address + 1) when they differ. *)
C3_Original_BeqNoAdvance ==
    (Executed("Beq") /\ ~panicked) =>
        pc = IF OperandsEqual
             THEN U32OfInt(Address + Ins.offset_field)
             ELSE U32OfInt(Address + 1)

(* C3 as amended: a step that executes BEQ sets pc to
   (address + 1 + offset) modulo 2^32 when the two registers are equal and
   to (address + 1) when they differ; the one exception is a build with
   overflow checks when address + offset = -1, where the step panics on the
   `pc += 1` instead of wrapping pc to 0. *)
C3_BeqAdvancesPastBranch ==
    Executed("Beq") =>
        IF OperandsEqual
        THEN IF overflow_checks /\ Address + Ins.offset_field = -1
             THEN panicked
             ELSE ~panicked /\ pc = U32OfInt(Address + 1 + Ins.offset_field)
        ELSE ~panicked /\ pc = U32OfInt(Address + 1)

\* BEQ r1,r2,+3 with r1 = r2 = 5 was executed and moved pc forward by 4
C3_Witness_TakenPlus3 ==
    /\ Executed("Beq")
    /\ Ins.reg_a = 1 /\ Ins.reg_b = 2 /\ Ins.offset_field = 3
    /\ prev.register_file[1] = U32(0, 5)
    /\ prev.register_file[2] = U32(0, 5)
    /\ pc = U32(0, Address + 4)

(* C4: a step that executes JALR reg_a,reg_b with reg_a # reg_b writes
   (address + 1) to reg_b, sets pc to the value reg_a held before the step
   and does not advance pc further. *)
C4_JalrLinksAndJumps ==
    (Executed("Jalr") /\ Ins.reg_a # Ins.reg_b) =>
        /\ ~panicked
        /\ register_file[Ins.reg_b] = U32OfInt(Address + 1)
        /\ pc = prev.register_file[Ins.reg_a]

\* JALR at pc = 10 with reg_a = 100 ended with reg_b = 11 and pc = 100
C4_Witness_From10To100 ==
    /\ Executed("Jalr")
    /\ Ins.reg_a # Ins.reg_b
    /\ Address = 10
    /\ prev.register_file[Ins.reg_a] = U32(0, 100)
    /\ register_file[Ins.reg_b] = U32(0, 11)
    /\ pc = U32(0, 100)

(* C5 as stated: when JALR names one register as reg_a and reg_b, after
   the step pc is the value the register held before the step and the
   register holds (address + 1). *)
C5_Original_TargetCapturedFirst ==
    (Executed("Jalr") /\ Ins.reg_a = Ins.reg_b /\ ~panicked) =>
        /\ pc = prev.register_file[Ins.reg_a]
        /\ register_file[Ins.reg_b] = U32OfInt(Address + 1)

(* C5 as amended: when JALR names one register as reg_a and reg_b, the
   link value is written before the jump target is read, so the value the
   register held before the step is lost: after the step the register and
   pc both hold (address + 1). *)
C5_SameRegisterJumpsToLink ==
    (Executed("Jalr") /\ Ins.reg_a = Ins.reg_b) =>
        /\ ~panicked
        /\ register_file[Ins.reg_b] = U32OfInt(Address + 1)
        /\ pc = U32OfInt(Address + 1)

\* JALR r,r was executed while r held a value other than address + 1
C5_Witness_SameRegister ==
    /\ Executed("Jalr")
    /\ Ins.reg_a = Ins.reg_b
    /\ prev.register_file[Ins.reg_a] # U32OfInt(Address + 1)
    /\ prev.register_file[Ins.reg_a] # Zero
    /\ pc = U32OfInt(Address + 1)

\* the step from c indexes memory out of bounds: in its fetch, or in the
\* load or store of the LW or SW it fetched
FaultingAccess(c) ==
    \/ ~InBounds(c.pc)
    \/ /\ Fetch(c).op \in {"Lw", "Sw"}
       /\ ~InBounds(offset_memory(c.register_file[Fetch(c).reg_a],
                                  Fetch(c).offset_field))

(* C6: a step whose instruction fetch, LW address or SW address is 65536
   or more ends as a reported memory fault: the program does not crash, the
   engine is left halted, and no register or memory cell has changed. *)
C6_MemoryFaultReported ==
    (IsStep /\ ~prev.halted /\ FaultingAccess(prev)) =>
        /\ ~panicked
        /\ halted
        /\ register_file = prev.register_file
        /\ memory = prev.memory

(* C7: the executed-instruction counter is 0 at construction, grows by
   exactly 1 in every step that executes an instruction (NOOP and the
   halting HALT included), by the number of instructions executed in a
   step_n, not at all in calls made on a halted machine, and `count` prints
   it without changing it. *)
C7_CounterCountsExecuted ==
    /\ call.op = "new" => instruction_count = 0
    /\ (IsStep /\ ~panicked) =>
          instruction_count = prev.instruction_count + (IF prev.halted THEN 0 ELSE 1)
    /\ (IsStepN /\ ~panicked) =>
          IF prev.halted
          THEN instruction_count = prev.instruction_count
          ELSE /\ instruction_count - prev.instruction_count \in 0 .. call.count
               /\ ~halted => instruction_count - prev.instruction_count = call.count
               /\ halted => instruction_count - prev.instruction_count >= 1
    /\ call.op = "count" =>
          /\ printed = <<instruction_count>>
          /\ instruction_count = prev.instruction_count

\* `count` on a machine that halted on its fifth instruction prints 5
C7_Witness_CountAfterHalt ==
    /\ call.op = "count"
    /\ halted
    /\ Opcode(MemRead(memory, AsUsize(pc) - 1)) = 6
    /\ pc = U32(0, 5)
    /\ printed = <<5>>

RECURSIVE StepSequence(_, _, _)
\* the CPU after step() is called up to n times, no more once a call has
\* halted the machine (or the process has panicked)
StepSequence(c, n, checks) ==
    IF n = 0 \/ c.halted \/ c.panicked
    THEN c
    ELSE StepSequence(step(c, checks).cpu, n - 1, checks)

(* C8: step_n(count) leaves the CPU as calling step() up to count times,
   stopping at the first call that halts the machine, leaves it; it returns
   the halted flag as it is after the call; and step_n(0) changes nothing
   and returns the current halted flag. *)
C8_StepNIsRepeatedStep ==
    IsStepN =>
        /\ CPU = StepSequence(prev, call.count, overflow_checks)
        /\ ~panicked => ret = halted
        /\ call.count = 0 => CPU = prev /\ ret = prev.halted

\* step_n(3) stopped after two instructions, the second a HALT
C8_Witness_StopsEarly ==
    /\ IsStepN
    /\ call.count = 3
    /\ ~prev.halted
    /\ halted
    /\ ret
    /\ instruction_count = prev.instruction_count + 2
    /\ register_file # prev.register_file

----------------------------------------------------------------------------
(* The decoder on its own: the image is one word, and the first steps
   fetch and decode it *)

MaxDecodeSteps == 1

\* every opcode with every pair of register fields, bits 31-25 clear, set
\* and mixed, and low halves that set each bit of bits 2-0 and bit 15
DecodeWords ==
    { U32(above * 512 + opcode * 64 + a * 8 + b, low) :
        above \in {0, 1, 127}, opcode \in 0 .. 7, a \in Registers, b \in Registers,
        low \in {0, 1, 2, 4, 7, H \div 2 - 1, H \div 2, H \div 2 + 16384 + 5, H - 1} }

InitDecode ==
    \E code \in DecodeWords, checks \in BOOLEAN :
        /\ image = <<code>>
        /\ Starts(New(<<code>>))
        /\ overflow_checks = checks
        /\ call = [op |-> "new", count |-> 0]
        /\ ret = FALSE
        /\ printed = <<>>

DecodeStep == instruction_count < MaxDecodeSteps /\ Step

SpecDecode == InitDecode /\ [][DecodeStep]_vars

\* bit i of the word
Bit(code, i) ==
    IF i >= 16 THEN (code[1] \div 2^(i - 16)) % 2 ELSE (code[2] \div 2^i) % 2

\* the 3-bit field whose lowest bit is bit i
Field3(code, i) == 4 * Bit(code, i + 2) + 2 * Bit(code, i + 1) + Bit(code, i)

RECURSIVE LowBits(_, _)
\* the value of bits n-1 .. 0 of the word
LowBits(code, n) ==
    IF n = 0 THEN 0 ELSE 2^(n - 1) * Bit(code, n - 1) + LowBits(code, n - 1)

\* bits 15-0 read as a signed 16-bit two's-complement value
Signed16(code) == LowBits(code, 15) - 2^15 * Bit(code, 15)

\* the form the encoding table gives for bits 24-22
FormOf(b24, b23, b22) ==
    CASE <<b24, b23, b22>> = <<0, 0, 0>> -> "Add"
      [] <<b24, b23, b22>> = <<0, 0, 1>> -> "Nor"
      [] <<b24, b23, b22>> = <<0, 1, 0>> -> "Lw"
      [] <<b24, b23, b22>> = <<0, 1, 1>> -> "Sw"
      [] <<b24, b23, b22>> = <<1, 0, 0>> -> "Beq"
      [] <<b24, b23, b22>> = <<1, 0, 1>> -> "Jalr"
      [] <<b24, b23, b22>> = <<1, 1, 0>> -> "Halt"
      [] <<b24, b23, b22>> = <<1, 1, 1>> -> "Noop"

\* the word decodes to the form of its bits 24-22 with the operand fields
\* of that form, each taken from its bits
DecodesAsEncoded(code) ==
    /\ InstructionNew(code).op = FormOf(Bit(code, 24), Bit(code, 23), Bit(code, 22))
    /\ InstructionNew(code).op \in {"Add", "Nor"} =>
          /\ DOMAIN InstructionNew(code) = {"op", "reg_a", "reg_b", "dst_reg"}
          /\ InstructionNew(code).dst_reg = Field3(code, 0)
          /\ InstructionNew(code).dst_reg \in Registers
    /\ InstructionNew(code).op \in {"Lw", "Sw", "Beq"} =>
          /\ DOMAIN InstructionNew(code) = {"op", "reg_a", "reg_b", "offset_field"}
          /\ InstructionNew(code).offset_field = Signed16(code)
          /\ InstructionNew(code).offset_field \in -(2^15) .. 2^15 - 1
    /\ InstructionNew(code).op = "Jalr" =>
          DOMAIN InstructionNew(code) = {"op", "reg_a", "reg_b"}
    /\ InstructionNew(code).op \in {"Halt", "Noop"} =>
          DOMAIN InstructionNew(code) = {"op"}
    /\ InstructionNew(code).op \notin {"Halt", "Noop"} =>
          /\ InstructionNew(code).reg_a = Field3(code, 19)
          /\ InstructionNew(code).reg_b = Field3(code, 16)
          /\ InstructionNew(code).reg_a \in Registers
          /\ InstructionNew(code).reg_b \in Registers
    /\ InstructionNew(U32(code[1] % 512, code[2])) = InstructionNew(code)

\* the words the CPU holds: its non-zero memory cells, the zero of every
\* other cell, and its registers
WordsHeld ==
    {memory[a] : a \in DOMAIN memory} \cup {Zero}
        \cup {register_file[r] : r \in Registers}

(* C9: every word decodes, without failing, to exactly the form its bits
   24-22 select, whatever bits 31-25 are, with reg_a from bits 21-19, reg_b
   from bits 18-16 and dst_reg from bits 2-0, each in 0..7, and the offset
   equal to bits 15-0 read as a signed 16-bit two's-complement value. *)
C9_DecodeTotal == \A code \in WordsHeld : DecodesAsEncoded(code)

\* a step fetched a word with bits 31-25 all set and decoded it as
\* LW r5,r2,-1 (whose address, r5 - 1 with r5 = 0, is then out of bounds)
C9_Witness_HighBitsNegativeOffset ==
    /\ Executed("Lw")
    /\ MemRead(prev.memory, 0)[1] \div 512 = 127
    /\ Ins.offset_field = -1
    /\ Ins.reg_a = 5
    /\ Ins.reg_b = 2
    /\ panicked

(* C10: from every state whose next step executes SW r_a,r_b,0 with an
   in-range address in r_a and whose step after that executes
   LW r_a,r_c,0, the two steps leave r_c equal to the value r_b held before
   the SW. *)
C10_StoreLoadRoundTrip ==
    LET sw == Fetch(CPU)
        stored == step(CPU, overflow_checks).cpu
        lw == Fetch(stored)
        loaded == step(stored, overflow_checks).cpu
    IN  ( /\ ~halted /\ ~panicked /\ InBounds(pc)
          /\ sw.op = "Sw" /\ sw.offset_field = 0
          /\ InBounds(register_file[sw.reg_a])
          /\ InBounds(stored.pc)
          /\ lw.op = "Lw" /\ lw.offset_field = 0 /\ lw.reg_a = sw.reg_a )
        => /\ ~stored.panicked
           /\ ~loaded.panicked
           /\ loaded.register_file[lw.reg_b] = register_file[sw.reg_b]

\* step_n(2) executed SW r_a,r_b,0 and then LW r_a,r_c,0, with r_a = 100 and
\* three different registers, and r_c now holds the non-zero value of r_b
C10_Witness_RoundTripAt100 ==
    /\ IsStepN /\ call.count = 2
    /\ ~prev.halted /\ InBounds(prev.pc)
    /\ Fetch(prev).op = "Sw" /\ Fetch(prev).offset_field = 0
    /\ prev.register_file[Fetch(prev).reg_a] = U32(0, 100)
    /\ Fetch(step(prev, overflow_checks).cpu).op = "Lw"
    /\ Fetch(step(prev, overflow_checks).cpu).offset_field = 0
    /\ Fetch(step(prev, overflow_checks).cpu).reg_a = Fetch(prev).reg_a
    /\ Fetch(step(prev, overflow_checks).cpu).reg_b = 3
    /\ Fetch(prev).reg_b = 2
    /\ Fetch(prev).reg_a = 1
    /\ instruction_count = prev.instruction_count + 2
    /\ register_file[3] = prev.register_file[2]
    /\ register_file[3] = U32_MAX
    /\ prev.register_file[3] = Zero

----------------------------------------------------------------------------
\* the low and high halves of a + b with the carries taken out by hand
SumLow(a, b) == IF a[2] + b[2] >= H THEN a[2] + b[2] - H ELSE a[2] + b[2]
SumCarry(a, b) == IF a[2] + b[2] >= H THEN 1 ELSE 0
SumHigh(a, b) ==
    IF a[1] + b[1] + SumCarry(a, b) >= H
    THEN a[1] + b[1] + SumCarry(a, b) - H
    ELSE a[1] + b[1] + SumCarry(a, b)

\* the instruction with reg_a and reg_b exchanged
Swapped(ins) == [ins EXCEPT !.reg_a = ins.reg_b, !.reg_b = ins.reg_a]

(* C11: a step that executes ADD reg_a,reg_b,dst_reg does not fault and
   sets dst_reg to (reg_a + reg_b) mod 2^32 of the values the registers held
   before the step, which is also what the same ADD with reg_a and reg_b
   exchanged gives from the same state. *)
C11_AddWraps ==
    Executed("Add") =>
        /\ ~panicked
        /\ register_file[Ins.dst_reg]
             = U32(SumHigh(prev.register_file[Ins.reg_a], prev.register_file[Ins.reg_b]),
                   SumLow(prev.register_file[Ins.reg_a], prev.register_file[Ins.reg_b]))
        /\ register_file = ExecAdd(prev, Swapped(Ins)).register_file

\* ADD r1,r2,r3 with r1 = 0xFFFFFFFF and r2 = 1 left r3 = 0
C11_Witness_MaxPlusOne ==
    /\ Executed("Add")
    /\ Ins.reg_a = 1 /\ Ins.reg_b = 2 /\ Ins.dst_reg = 3
    /\ prev.register_file[1] = U32_MAX
    /\ prev.register_file[2] = One
    /\ register_file[3] = Zero
    /\ ~panicked

(* C12: construction from an image of at most MEMORY_SIZE words gives the
   initial state: cell i holds image word i for every i below the image
   length, every other cell holds 0, the 8 registers are 0, pc is 0 and
   halted is false. *)
C12_ConstructedState ==
    (call.op = "new" /\ Len(image) <= MEMORY_SIZE) =>
        /\ ~panicked
        /\ \A i \in 0 .. Len(image) - 1 : MemRead(memory, i) = image[i + 1]
        /\ \A a \in DOMAIN memory : a < Len(image) /\ memory[a] # Zero
        /\ \A r \in Registers : register_file[r] = Zero
        /\ DOMAIN register_file = Registers
        /\ pc = Zero
        /\ halted = FALSE

\* a CPU just built from an 11-word image with zero words inside it
C12_Witness_ElevenWords ==
    /\ call.op = "new"
    /\ Len(image) = 11
    /\ image[3] = U32(0, 100)
    /\ image[4] = Zero
    /\ MemRead(memory, 2) = U32(0, 100)
    /\ MemRead(memory, 10) = image[11]
    /\ 3 \notin DOMAIN memory

\* the cell with address (a + offset) mod 2^32 when that is below 2^16,
\* and -1 when it is not
CellAt(a, offset) ==
    LET n == a[2] + offset
    IN  CASE a[1] = 0 /\ n >= 0 /\ n < H -> n
          [] a[1] = 1 /\ n < 0 -> n + H
          [] a[1] = H - 1 /\ n >= H -> n - H
          [] OTHER -> -1

\* the two memories hold the same word in every cell but cell
SameButAt(mem, other, cell) ==
    \A a \in (DOMAIN mem \cup DOMAIN other) \ {cell} :
        MemRead(mem, a) = MemRead(other, a)

(* C13: a step changes memory only by executing SW: every other step (on a
   halted machine, with a fetch out of bounds, or executing another form,
   LW included) leaves every cell as it was, and a step that executes SW
   changes no cell but the one at reg_a + sign-extended offset, which it
   sets to reg_b. *)
C13_OnlyStoresWriteMemory ==
    /\ (IsStep /\ ~Executed("Sw")) => memory = prev.memory
    /\ (Executed("Sw") /\ panicked) => memory = prev.memory
    /\ (Executed("Sw") /\ ~panicked) =>
          /\ CellAt(prev.register_file[Ins.reg_a], Ins.offset_field) # -1
          /\ SameButAt(memory, prev.memory,
                       CellAt(prev.register_file[Ins.reg_a], Ins.offset_field))
          /\ MemRead(memory, CellAt(prev.register_file[Ins.reg_a], Ins.offset_field))
               = prev.register_file[Ins.reg_b]

\* SW r1,r2,0 with r1 = 100 changed cell 100, and only it, to the value of r2
C13_Witness_StoreAt100 ==
    /\ Executed("Sw")
    /\ Ins.reg_a = 1 /\ Ins.reg_b = 2 /\ Ins.offset_field = 0
    /\ prev.register_file[1] = U32(0, 100)
    /\ MemRead(prev.memory, 100) = Zero
    /\ MemRead(memory, 100) = U32_MAX
    /\ memory # prev.memory

\* SW r1,r1,1 with r1 = 0xFFFFFFFF wrote cell 0
C13_Witness_StoreWraps ==
    /\ Executed("Sw")
    /\ prev.register_file[Ins.reg_a] = U32_MAX
    /\ Ins.offset_field = 1
    /\ MemRead(memory, 0) = U32_MAX
    /\ ~panicked

(* C14: JALR writes the link value pc + 1 to reg_b and only then reads
   reg_a for the jump: after every step that executes JALR, reg_b holds
   (address + 1) and pc equals the value reg_a holds after the link was
   written, so with reg_a and reg_b the same register both it and pc are
   (address + 1). *)
C14_JalrLinkThenJump ==
    Executed("Jalr") =>
        /\ ~panicked
        /\ register_file[Ins.reg_b] = U32OfInt(Address + 1)
        /\ pc = register_file[Ins.reg_a]
        /\ \A r \in Registers \ {Ins.reg_b} : register_file[r] = prev.register_file[r]

\* JALR r,r at address 10 with r = 100 left r = 11 and pc = 11
C14_Witness_SameRegisterAt10 ==
    /\ Executed("Jalr")
    /\ Ins.reg_a = Ins.reg_b
    /\ Address = 10
    /\ prev.register_file[Ins.reg_a] = U32(0, 100)
    /\ register_file[Ins.reg_a] = U32(0, 11)
    /\ pc = U32(0, 11)

(* C15: the step that executes HALT on a running machine sets halted, sets
   pc to (address + 1), leaves every register and memory cell as it was and
   returns true. *)
C15_HaltStep ==
    Executed("Halt") =>
        /\ ~panicked
        /\ halted
        /\ pc = U32OfInt(Address + 1)
        /\ register_file = prev.register_file
        /\ memory = prev.memory
        /\ ret = TRUE

\* a HALT at address 4 was executed with registers and memory in use
C15_Witness_HaltAt4 ==
    /\ Executed("Halt")
    /\ Address = 4
    /\ pc = U32(0, 5)
    /\ halted /\ ret
    /\ register_file[3] # Zero
    /\ MemRead(memory, 100) # Zero

(* C16: the pc update of a taken BEQ wraps modulo 2^32 for every pc and
   every signed 16-bit offset, also when pc + offset is negative or is
   2^32 - 1: no pc update of a step faults on arithmetic, so a step whose
   fetch, load and store are in range does not panic, and a taken BEQ
   leaves pc within the 32-bit range at the wrapped target. *)
C16_PcUpdateNeverFaults ==
    /\ (IsStep /\ ~prev.halted /\ ~FaultingAccess(prev)) => ~panicked
    /\ (Executed("Beq") /\ OperandsEqual) =>
          pc = wrapping_add(offset_memory(prev.pc, Ins.offset_field), One)

\* within the next n steps from c, the first step that fetches at cell,
\* if no step stores to cell before it, executes the decoding of w
RECURSIVE FetchesStored(_, _, _, _, _)
FetchesStored(c, cell, w, n, checks) ==
    IF n = 0 \/ c.halted \/ c.panicked \/ ~InBounds(c.pc)
    THEN TRUE
    ELSE IF AsUsize(c.pc) = cell
    THEN step(c, checks) = ExecuteInstruction(c, InstructionNew(w), checks)
    ELSE IF /\ Fetch(c).op = "Sw"
            /\ CellAt(c.register_file[Fetch(c).reg_a], Fetch(c).offset_field) = cell
    THEN TRUE
    ELSE FetchesStored(step(c, checks).cpu, cell, w, n - 1, checks)

(* C17: instructions are decoded fresh from memory on every fetch: every
   step of a running machine executes the decoding of the word its memory
   holds at pc at that moment, and when a SW step has written word w to
   address A, the next step that fetches at pc = A, with no store to A in
   between, executes the instruction decoded from w, whatever the image
   held at A. *)
C17_DecodedOnEveryFetch ==
    /\ (IsStep /\ ~prev.halted /\ InBounds(prev.pc)) =>
          CPU = ExecuteInstruction(prev,
                                   InstructionNew(MemRead(prev.memory, Address)),
                                   overflow_checks).cpu
    /\ (Executed("Sw") /\ ~panicked) =>
          FetchesStored(CPU,
                        CellAt(prev.register_file[Ins.reg_a], Ins.offset_field),
                        prev.register_file[Ins.reg_b],
                        MaxCount, overflow_checks)

\* the SW at address 2 has put HALT over the LW the image has at address
\* 3, and the step that follows halts the machine there
C17_Witness_HaltOverwritesLoad ==
    /\ Executed("Sw") /\ ~panicked
    /\ Address = 2
    /\ pc = U32(0, 3)
    /\ Len(image) = 7 /\ Opcode(image[4]) = 2
    /\ MemRead(memory, 3) = HALT
    /\ prev.register_file[Ins.reg_b] = HALT
    /\ step(CPU, overflow_checks).ret
    /\ step(CPU, overflow_checks).cpu.pc = U32(0, 4)

\* the step at address 4 executed the ADD stored over the HALT of the
\* image and the machine runs on
C17_Witness_AddOverwritesHalt ==
    /\ Executed("Add")
    /\ Address = 4
    /\ Len(image) = 7 /\ image[5] = HALT
    /\ ~halted /\ ~panicked
    /\ pc = U32(0, 5)

\* the last command was `mem` / `ins`
IsMem == call.op = "mem"
IsIns == call.op = "ins"

(* C18: the operations behind the debugger's mem and ins commands never
   change the engine, and when the window asked for (start + length for
   mem, pc + count for ins) reaches past address 65535 they fail with an
   error that is reported while the session continues: the program does
   not crash and the engine state is as before. *)
C18_ObserversFailSoftly ==
    (IsMem \/ IsIns) =>
        /\ register_file = prev.register_file
        /\ memory = prev.memory
        /\ pc = prev.pc
        /\ halted = prev.halted
        /\ ~panicked

\* the loop of step_n without its `self.halted = true`
RECURSIVE LoopWithoutAssignment(_, _, _)
LoopWithoutAssignment(c, count, checks) ==
    IF count = 0
    THEN [cpu |-> c, ret |-> FALSE]
    ELSE IF step(c, checks).cpu.panicked \/ step(c, checks).ret
    THEN step(c, checks)
    ELSE LoopWithoutAssignment(step(c, checks).cpu, count - 1, checks)

(* C19: the boolean step() returns is the halted flag as the call leaves
   it, and so is the boolean step_n(count) returns; hence the assignment
   of halted inside step_n never changes the flag: from every reachable
   state, step_n does what its loop without the assignment does. *)
C19_ReturnIsHaltedFlag ==
    /\ ((IsStep \/ IsStepN) /\ ~panicked) => ret = halted
    /\ ~panicked =>
          \A count \in 0 .. MaxCount :
              step_n(CPU, count, overflow_checks)
                = IF halted
                  THEN [cpu |-> CPU, ret |-> TRUE]
                  ELSE LoopWithoutAssignment(CPU, count, overflow_checks)

\* a single step() executed HALT and returned true with the flag set,
\* after step() calls that returned false with the flag clear
C19_Witness_TrueOnlyAtHalt ==
    /\ Executed("Halt")
    /\ ret = TRUE /\ halted = TRUE
    /\ ~prev.halted
    /\ instruction_count = 4
    /\ ~step(New(image), overflow_checks).ret
    /\ ~step(New(image), overflow_checks).cpu.halted

(* C20: a machine built from an empty image never halts: every step
   decodes the word 0 as ADD r0,r0,r0, leaves all registers and memory
   zero and advances pc by exactly 1, so that after n steps pc = n, until
   pc is the memory size; the fetch of the next step is then outside the
   address space. *)
C20_EmptyImageRuns ==
    /\ image = <<>>
    /\ ~halted
    /\ \A r \in Registers : register_file[r] = Zero
    /\ DOMAIN memory = {}
    /\ pc[1] * H + pc[2] = instruction_count
    /\ instruction_count <= MEMORY_SIZE
    /\ InBounds(pc) =>
          /\ ~panicked
          /\ Fetch(CPU) = [op |-> "Add", reg_a |-> 0, reg_b |-> 0, dst_reg |-> 0]
          /\ step(CPU, overflow_checks).cpu.pc = U32OfInt(instruction_count + 1)
          /\ ~step(CPU, overflow_checks).ret
    /\ (IsStep /\ ~panicked) => pc = U32OfInt(prev.pc[1] * H + prev.pc[2] + 1)
    /\ (IsStep \/ IsStepN) => ret = FALSE
    /\ ~InBounds(pc) =>
          /\ instruction_count = MEMORY_SIZE
          /\ step(CPU, overflow_checks).cpu.panicked

\* after 65536 steps pc is the memory size and the first step of the run
\* that followed found its fetch out of bounds
C20_Witness_RanOffTheEnd ==
    /\ image = <<>>
    /\ panicked
    /\ IsStepN
    /\ prev.pc = U32(1, 0)
    /\ pc = U32(1, 0)
    /\ instruction_count = MEMORY_SIZE

====
